---- MODULE Spec2Model ----
(***************************************************************************)
(* Model of src/App.tsx: the App component's query state (city, weather,   *)
(* loading, error), the fetchWeather handler with its asynchronous         *)
(* continuation, and the reduction of the provider's sample list into      *)
(* current conditions and a forecast of at most three noon entries.        *)
(*                                                                         *)
(* Numbers with a fractional part are kept in tenths (21.5 is 215).        *)
(* An optional value is a sequence of length 0 (absent) or 1 (present).    *)
(***************************************************************************)
EXTENDS Integers, Sequences, FiniteSets, TLC

\* ------------------------------------------------------------------ bounds
MaxCityLen == 2
MaxRequests == 3
MaxListLen == 3
MaxDay == 3
MaxFeedLen == 30

\* --------------------------------------------------------------- constants
ForecastLimit == 3
NoonHour == 12
\* the viewer's zone, east of UTC: what getHours and toLocaleDateString apply
TimezoneOffsetSeconds == 3600

ErrorMessage == "Unable to fetch weather data. Please check the city name and try again."

\* ------------------------------------------------------------ text helpers
Chars == {" ", "a"}

IsSpace(c) == c = " "

RECURSIVE TrimStart(_)
TrimStart(s) ==
  IF s = <<>> THEN <<>>
  ELSE IF IsSpace(Head(s)) THEN TrimStart(Tail(s)) ELSE s

RECURSIVE TrimEnd(_)
TrimEnd(s) ==
  IF s = <<>> THEN <<>>
  ELSE IF IsSpace(s[Len(s)]) THEN TrimEnd(SubSeq(s, 1, Len(s) - 1)) ELSE s

NoTrim(s) == s

\* String.prototype.trim
Trim(s) == TrimEnd(TrimStart(s))

\* the guard of line 45: !city.trim() is true exactly for the empty string
IsBlank(s) == Trim(s) = <<>>

\* ------------------------------------------------------------ Math.round
\* Math.round on a value given in tenths: floor(x + 0.5)
Round(t) == (t + 5) \div 10

\* Math.round(speed * 3.6), speed in tenths of m/s
RoundWind(s) == (s * 36 + 50) \div 100

\* Math.round(visibility / 1000), visibility in whole metres
RoundVisibility(v) == (v + 500) \div 1000

\* ------------------------------------------------------------------ Date
\* new Date(item.dt * 1000): the instant in milliseconds
NewDate(dt) == dt * 1000

LocalMs(date) == date + TimezoneOffsetSeconds * 1000

\* Date.prototype.getHours: local hour of day
getHours(date) == (LocalMs(date) \div 3600000) % 24

\* local day number, days since 1970-01-01
LocalDay(date) == LocalMs(date) \div 86400000

\* proleptic Gregorian date of a day number, in steps: the 400-year era and
\* the day of it, the year of the era, the day of the year, the month
YearOfEra(doe) == (doe - doe \div 1460 + doe \div 36524 - doe \div 146096) \div 365

DayOfYear(doe, yoe) == doe - (365 * yoe + yoe \div 4 - yoe \div 100)

MonthOf(mp) == IF mp < 10 THEN mp + 3 ELSE mp - 9

CivilOfMonth(era, yoe, doy, mp) ==
  [year |-> yoe + era * 400 + (IF MonthOf(mp) <= 2 THEN 1 ELSE 0),
   month |-> MonthOf(mp),
   day |-> doy - (153 * mp + 2) \div 5 + 1]

CivilOfYear(era, yoe, doy) == CivilOfMonth(era, yoe, doy, (5 * doy + 2) \div 153)

CivilOfEra(era, doe) == CivilOfYear(era, YearOfEra(doe), DayOfYear(doe, YearOfEra(doe)))

CivilFromDays(n) ==
  CivilOfEra((n + 719468) \div 146097, (n + 719468) - ((n + 719468) \div 146097) * 146097)

WeekdayNames == <<"Sun", "Mon", "Tue", "Wed", "Thu", "Fri", "Sat">>
MonthNames == <<"Jan", "Feb", "Mar", "Apr", "May", "Jun",
                "Jul", "Aug", "Sep", "Oct", "Nov", "Dec">>

\* date.toLocaleDateString(): month/day/year of the local date
toLocaleDateString(date) ==
  LET c == CivilFromDays(LocalDay(date)) IN <<c.month, c.day, c.year>>

\* date.toLocaleDateString('en-US', {weekday:'short', month:'short', day:'numeric'})
toShortLabel(date) ==
  LET n == LocalDay(date)
      c == CivilFromDays(n)
  IN <<WeekdayNames[((n + 4) % 7) + 1], MonthNames[c.month], c.day>>

\* ------------------------------------------------------- forecast reducer
Null == <<>>
Some(x) == <<x>>

\* the catch path was entered before a result was stored
Thrown == [threw |-> TRUE, weather |-> Null]

\* reading weather[0].main throws when the entry carries no weather element
HasWeather(item) == Len(item.weather) > 0

\* lines 64-72, evaluated only when data.list[0] and its weather[0] exist
CurrentLast(list) ==
  LET s == list[Len(list)]
  IN [temp |-> Round(s.main.temp),
      feelsLike |-> Round(s.main.feels_like),
      condition |-> s.weather[1].main,
      humidity |-> s.main.humidity,
      windSpeed |-> RoundWind(s.wind.speed),
      pressure |-> s.main.pressure,
      visibility |-> RoundVisibility(s.visibility)]

CurrentOf(list) ==
  LET s == list[1]
  IN [temp |-> Round(s.main.temp),
      feelsLike |-> Round(s.main.feels_like),
      condition |-> s.weather[1].main,
      humidity |-> s.main.humidity,
      windSpeed |-> RoundWind(s.wind.speed),
      pressure |-> s.main.pressure,
      visibility |-> RoundVisibility(s.visibility)]

\* processedDates.has(dateStr); the Set is kept in insertion order
Has(processedDates, dateStr) ==
  \E k \in 1..Len(processedDates) : processedDates[k] = dateStr

getUTCHours(date) == (date \div 3600000) % 24

SelectsUTC(processedDates, date) ==
  ~Has(processedDates, toLocaleDateString(date)) /\ getUTCHours(date) = NoonHour

SelectsNoDedupe(processedDates, date) == getHours(date) = NoonHour

\* the condition of line 82
Selects(processedDates, date) ==
  ~Has(processedDates, toLocaleDateString(date)) /\ getHours(date) = NoonHour

\* the object pushed at lines 84-89
ForecastEntry(item, date) ==
  [date |-> toShortLabel(date),
   high |-> Round(item.main.temp_max),
   low |-> Round(item.main.temp_min),
   condition |-> item.weather[1].main]

NeverBreak(forecast) == FALSE

\* line 91
LimitReached(forecast) == Len(forecast) = ForecastLimit

\* the for-of loop of lines 78-93, from position i with the loop's locals
RECURSIVE ForecastLoop(_, _, _, _)
ForecastLoop(list, i, forecast, processedDates) ==
  IF i > Len(list)
  THEN [threw |-> FALSE, forecast |-> forecast, processedDates |-> processedDates]
  ELSE LET item == list[i]
           date == NewDate(item.dt)
       IN IF Selects(processedDates, date)
          THEN IF ~HasWeather(item)
               THEN [threw |-> TRUE, forecast |-> forecast,
                     processedDates |-> Append(processedDates, toLocaleDateString(date))]
               ELSE LET pushed == Append(forecast, ForecastEntry(item, date))
                        added == Append(processedDates, toLocaleDateString(date))
                    IN IF LimitReached(pushed)
                       THEN [threw |-> FALSE, forecast |-> pushed, processedDates |-> added]
                       ELSE ForecastLoop(list, i + 1, pushed, added)
          ELSE ForecastLoop(list, i + 1, forecast, processedDates)

\* lines 75-93
BuildForecast(list) == ForecastLoop(list, 1, <<>>, <<>>)

\* lines 61-99: the body of the try block after a successful status check
ProcessData(data) ==
  IF Len(data.list) = 0 THEN Thrown
  ELSE IF ~HasWeather(data.list[1]) THEN Thrown
  ELSE LET current == CurrentOf(data.list)
           loop == BuildForecast(data.list)
       IN IF loop.threw THEN Thrown
          ELSE IF Len(data.city) = 0 THEN Thrown
          ELSE [threw |-> FALSE,
                weather |-> Some([city |-> data.city[1].name,
                                  current |-> current,
                                  forecast |-> loop.forecast])]

\* lines 53-99: what the try block does with a response
TryBlock(response) ==
  IF response.kind = "network_error" THEN Thrown
  ELSE IF ~response.ok THEN Thrown
  ELSE IF ~response.json THEN Thrown
  ELSE ProcessData(response.body)

\* ------------------------------------------------------------------ inputs
Conditions == <<"Clear", "Rain", "Clouds">>

\* the instant whose local time is hour `h` of day `d`
LocalAt(d, h) == d * 86400 + h * 3600 - TimezoneOffsetSeconds

\* one entry of the provider's list; the readings vary with the position i
MkSample(dt, i, wellFormed) ==
  [dt |-> dt,
   main |-> [temp |-> 215 + i, feels_like |-> 204 - i,
             temp_max |-> 245 + 3 * i, temp_min |-> 154 - 3 * i,
             humidity |-> 60 + i, pressure |-> 1010 + i],
   weather |-> IF wellFormed THEN <<[main |-> Conditions[(i % 3) + 1]]>> ELSE <<>>,
   wind |-> [speed |-> 35 + i],
   visibility |-> 9400 + 100 * i]

SampleHours == {9, NoonHour}
SampleDts == {LocalAt(d, h) : d \in 0..MaxDay, h \in SampleHours}

\* a list in any order: entry i at instant f[i], entry `bad` lacking weather
ListOf(n, f, bad) == [i \in 1..n |-> MkSample(f[i], i, i # bad)]

\* a provider feed: n entries at 3-hour steps from local hour h0 of day 0
Feed(h0, n, bad) == [i \in 1..n |-> MkSample(LocalAt(0, h0) + (i - 1) * 10800, i, i # bad)]
FeedStartHours == {0, 1}

\* none; the first noon, its successor and the fourth noon of a midnight feed
FeedBadPositions == {0, 5, 6, 29}

London == <<[name |-> "London"]>>
EmptyBody == [city |-> Null, list |-> <<>>]

FailureResponses ==
  {[kind |-> "network_error", ok |-> FALSE, json |-> FALSE, body |-> EmptyBody],
   [kind |-> "http", ok |-> FALSE, json |-> TRUE, body |-> EmptyBody],
   [kind |-> "http", ok |-> TRUE, json |-> FALSE, body |-> EmptyBody]}

\* a 200 response whose body parses as JSON
OkResponse(cityField, list) ==
  [kind |-> "http", ok |-> TRUE, json |-> TRUE, body |-> [city |-> cityField, list |-> list]]

\* responses the orchestration is explored with
Responses ==
  FailureResponses
  \cup {OkResponse(c, ListOf(n, f, bad)) :
          c \in {London}, n \in {1}, f \in [1..1 -> {LocalAt(0, 9), LocalAt(0, NoonHour)}],
          bad \in 0..1}
  \cup {OkResponse(London, <<>>), OkResponse(Null, ListOf(1, <<LocalAt(0, NoonHour)>>, 0))}

NoResponse == [kind |-> "none", ok |-> FALSE, json |-> FALSE, body |-> EmptyBody]

RECURSIVE SeqsUpTo(_, _)
SeqsUpTo(S, n) ==
  IF n = 0 THEN {<<>>}
  ELSE LET shorter == SeqsUpTo(S, n - 1)
       IN shorter \cup {Append(s, c) : s \in shorter, c \in S}

\* values the text input can hold
Cities == SeqsUpTo(Chars, MaxCityLen)

\* ------------------------------------------------------------------- state
\* city, weather, loading, error: the four useState cells of App.
\* pending: the requests awaiting their response, by dispatch number (what
\*          the provider answers does not depend on the query in the model).
\* nextId: the number of requests dispatched so far.
\* response: the response the latest settlement received.
\* log: the dispatches and settlements so far, in order.
\* lastOp: the handler that ran last.
VARIABLES city, weather, loading, error, pending, nextId, response, log, lastOp

vars == <<city, weather, loading, error, pending, nextId, response, log, lastOp>>

Init ==
  /\ city = <<>>
  /\ weather = Null
  /\ loading = FALSE
  /\ error = ""
  /\ pending = {}
  /\ nextId = 0
  /\ response = NoResponse
  /\ log = <<>>
  /\ lastOp = "init"

\* line 120: onChange
setCity(v) ==
  /\ city' = v
  /\ lastOp' = "setCity"
  /\ UNCHANGED <<weather, loading, error, pending, nextId, response, log>>

KeepError(e) == e

\* line 48: setError('')
ClearedError(e) == ""

\* lines 43-55: the handler up to the await of fetch
fetchWeather ==
  /\ lastOp' = "fetchWeather"
  /\ IF IsBlank(city)
     THEN UNCHANGED <<city, weather, loading, error, pending, nextId, response, log>>
     ELSE /\ nextId < MaxRequests
          /\ loading' = TRUE
          /\ error' = ClearedError(error)
          /\ nextId' = nextId + 1
          /\ pending' = pending \cup {nextId + 1}
          /\ log' = Append(log, [ev |-> "send", id |-> nextId + 1])
          /\ UNCHANGED <<city, weather, response>>

\* line 126: the button is disabled while loading
clickSearch == ~loading /\ fetchWeather

\* line 121: Enter in the text input, not guarded by loading
pressEnter == fetchWeather

KeepWeather(w) == w

\* line 102: setWeather(null)
CatchWeather(w) == Null

\* lines 56-105: the continuation once the request `req` got `resp`; it runs
\* to completion, so its setState calls take effect together
settle(req, resp) ==
  LET r == TryBlock(resp)
  IN /\ req \in pending
     /\ pending' = pending \ {req}
     /\ response' = resp
     /\ weather' = IF r.threw THEN CatchWeather(weather) ELSE r.weather
     /\ error' = IF r.threw THEN ErrorMessage ELSE error
     /\ loading' = FALSE
     /\ log' = Append(log, [ev |-> "settle", id |-> req])
     /\ lastOp' = "settle"
     /\ UNCHANGED <<city, nextId>>

Next ==
  \/ \E v \in Cities : setCity(v)
  \/ clickSearch
  \/ pressEnter
  \/ \E req \in pending, resp \in Responses : settle(req, resp)

Spec == Init /\ [][Next]_vars

\* one request dispatched for "a", its response still to come
ReducerInit ==
  /\ city = <<"a">>
  /\ weather = Null
  /\ loading = TRUE
  /\ error = ""
  /\ pending = {1}
  /\ nextId = 1
  /\ response = NoResponse
  /\ log = <<[ev |-> "send", id |-> 1]>>
  /\ lastOp = "fetchWeather"

\* the response is a failure, or a 200 without the city field
settleFailure ==
  \E req \in pending :
    \/ \E resp \in FailureResponses : settle(req, resp)
    \/ \E n \in 0..1, bad \in 0..1 :
         settle(req, OkResponse(Null, ListOf(n, [i \in 1..n |-> LocalAt(0, NoonHour)], bad)))

\* the response is a 200 with a list in any order
settleList ==
  \E req \in pending, n \in 0..MaxListLen :
    \E f \in [1..n -> SampleDts], bad \in 0..n :
      settle(req, OkResponse(London, ListOf(n, f, bad)))

\* the response is a 200 with a 3-hour feed
settleFeed ==
  \E req \in pending, h0 \in FeedStartHours, n \in 1..MaxFeedLen, bad \in FeedBadPositions :
    settle(req, OkResponse(London, Feed(h0, n, bad)))

ReducerNext == settleFailure \/ settleList \/ settleFeed

ReducerSpec == ReducerInit /\ [][ReducerNext]_vars

TypeOK ==
  /\ city \in Cities
  /\ loading \in BOOLEAN
  /\ error \in {"", ErrorMessage}
  /\ Len(weather) <= 1
  /\ nextId \in 0..MaxRequests

\* ------------------------------------------------- vocabulary of the claims
OnlySpaces(s) == \A i \in 1..Len(s) : s[i] = " "

\* local wall-clock reading of a sample, from its timestamp in seconds
HourOf(item) == ((item.dt + TimezoneOffsetSeconds) \div 3600) % 24
DayOf(item) == (item.dt + TimezoneOffsetSeconds) \div 86400

\* positions holding the first noon sample of their local date
FirstNoons(list) ==
  {i \in 1..Len(list) :
     /\ HourOf(list[i]) = 12
     /\ \A j \in 1..(i - 1) : ~(HourOf(list[j]) = 12 /\ DayOf(list[j]) = DayOf(list[i]))}

\* the first three of them
TopNoons(list) ==
  {i \in FirstNoons(list) : Cardinality({j \in FirstNoons(list) : j < i}) < 3}

\* the k-th smallest element of a set of positions
Kth(S, k) == CHOOSE i \in S : Cardinality({j \in S : j < i}) = k - 1

\* nearest integer of a value in tenths, halves upwards
Nearest(t) == CHOOSE k \in -200..200 : 10 * k - 5 <= t /\ t < 10 * k + 5

\* label of a local day of January 1970 (day 0 was a Thursday)
JanuaryLabel(n) == <<WeekdayNames[((n + 4) % 7) + 1], "Jan", n + 1>>

ExpectedEntry(item) ==
  [date |-> JanuaryLabel(DayOf(item)),
   high |-> Nearest(item.main.temp_max),
   low |-> Nearest(item.main.temp_min),
   condition |-> item.weather[1].main]

ExpectedCurrent(s) ==
  [temp |-> Nearest(s.main.temp),
   feelsLike |-> Nearest(s.main.feels_like),
   condition |-> s.weather[1].main,
   humidity |-> s.main.humidity,
   windSpeed |-> CHOOSE k \in 0..500 : 100 * k - 50 <= 36 * s.wind.speed
                                        /\ 36 * s.wind.speed < 100 * k + 50,
   pressure |-> s.main.pressure,
   visibility |-> CHOOSE k \in 0..100 : 1000 * k - 500 <= s.visibility
                                         /\ s.visibility < 1000 * k + 500]

\* the last step delivered a 200 response with a JSON body
SettledOk == lastOp = "settle" /\ response.kind = "http" /\ response.ok /\ response.json

\* the last step delivered a response and the handler stored its result
SettledWithResult == SettledOk /\ weather # Null /\ error = ""

Chronological(list) == \A i \in 1..(Len(list) - 1) : list[i].dt <= list[i + 1].dt

\* the log is: two dispatches, then the two settlements
TwoOverlappingSettled ==
  /\ Len(log) = 4
  /\ log[1].ev = "send" /\ log[2].ev = "send"
  /\ log[3].ev = "settle" /\ log[4].ev = "settle"

\* what one request, dispatched and answered by r with nothing else pending, leaves
AloneState(r) ==
  LET t == TryBlock(r)
  IN IF t.threw THEN <<Null, ErrorMessage>> ELSE <<t.weather, "">>

\* ------------------------------------------------------------------ claims

\* C1: a submit while the query text is empty or whitespace-only issues no
\* request and leaves in-flight, last error and last result as they were.
BlankSubmitIsNoOp ==
  [][(lastOp' = "fetchWeather" /\ OnlySpaces(city))
       => UNCHANGED <<city, weather, loading, error, pending, nextId, response, log>>]_vars

BlankSubmitAfterError ==
  /\ lastOp = "fetchWeather"
  /\ city # <<>> /\ OnlySpaces(city)
  /\ error = ErrorMessage

\* C2: right after a request settles as a failure the last error is the fixed
\* message, the last result is null and in-flight is false.
FailureSettlement ==
  (lastOp = "settle" /\ TryBlock(response).threw)
    => (error = ErrorMessage /\ weather = Null /\ ~loading)

MalformedEntrySettled ==
  /\ SettledOk
  /\ Len(response.body.list) > 0
  /\ response.body.list[1].weather = <<>>
  /\ error = ErrorMessage
  /\ Len(log) > 2

\* C3 as stated: while in-flight, the last error is empty and the last result
\* is null.
InFlightExcludesErrorAndResult == loading => (error = "" /\ weather = Null)

\* C3 amended: while in-flight, the last error is empty (a result stored by
\* an earlier query may still be there).
InFlightExcludesError == loading => error = ""

InFlightWithEarlierResult == loading /\ weather # Null /\ pending # {}

\* C4: after two overlapping submissions have both settled, last result and
\* last error are what the last-arriving response alone would produce.
LastArrivalDecides ==
  TwoOverlappingSettled => <<weather, error>> = AloneState(response)

\* C8: in-flight is true exactly when at least one request is pending.
InFlightIffPending == loading <=> pending # {}

\* C10: last error and last result are never both set.
NoErrorWithResult == ~(error # "" /\ weather # Null)

\* ---------------------------------------------------------- reducer claims
\* a <<month, day, year>> date is not later than another
DateLeq(a, b) ==
  \/ a[3] < b[3]
  \/ a[3] = b[3] /\ a[1] < b[1]
  \/ a[3] = b[3] /\ a[1] = b[1] /\ a[2] <= b[2]

\* the stored forecast has at most 3 entries, one per selected date, no
\* date twice
BoundedAndDistinct(forecast, dates) ==
  /\ Len(forecast) <= 3
  /\ Len(dates) = Len(forecast)
  /\ \A k \in 1..Len(forecast) :
       forecast[k].date[2] = MonthNames[dates[k][1]] /\ forecast[k].date[3] = dates[k][2]
  /\ \A k, l \in 1..Len(dates) : k # l => dates[k] # dates[l]

NonDecreasing(dates) == \A k \in 1..(Len(dates) - 1) : DateLeq(dates[k], dates[k + 1])

\* C5 as stated: for every sample sequence, in any order, the forecast has
\* 0 to 3 entries, each calendar date at most once, dates non-decreasing.
ForecastBoundedDistinctOrdered ==
  SettledWithResult =>
    LET out == BuildForecast(response.body.list)
    IN /\ weather[1].forecast = out.forecast
       /\ BoundedAndDistinct(out.forecast, out.processedDates)
       /\ NonDecreasing(out.processedDates)

\* C5 amended: for every sample sequence the forecast has 0 to 3 entries and
\* each calendar date at most once; its dates are non-decreasing when the
\* samples come in chronological order.
ForecastBoundedDistinct ==
  SettledWithResult =>
    LET out == BuildForecast(response.body.list)
    IN /\ weather[1].forecast = out.forecast
       /\ BoundedAndDistinct(out.forecast, out.processedDates)
       /\ (Chronological(response.body.list) => NonDecreasing(out.processedDates))

RepeatedNoonReduced ==
  /\ SettledWithResult
  /\ Chronological(response.body.list)
  /\ Len(weather[1].forecast) = 2
  /\ Cardinality({i \in 1..Len(response.body.list) : HourOf(response.body.list[i]) = 12}) = 3

\* a feed at 3-hour steps whose first sample is at local midnight
MidnightFeed(list) ==
  /\ Len(list) > 0
  /\ (list[1].dt + TimezoneOffsetSeconds) % 86400 = 0
  /\ \A i \in 1..(Len(list) - 1) : list[i + 1].dt - list[i].dt = 3 * 3600

\* C6: a 3-hour feed from local hour 0 holding a noon sample on each of 3
\* days gives exactly 3 entries, one per day in day order, each built from
\* that day's noon sample.
ScenarioA ==
  LET list == response.body.list
      noons == {i \in 1..Len(list) : HourOf(list[i]) = 12}
  IN (/\ SettledOk
      /\ response.body.city # Null
      /\ MidnightFeed(list)
      /\ Cardinality(noons) >= 3
      /\ list[1].weather # <<>>
      /\ \A k \in 1..3 : list[Kth(noons, k)].weather # <<>>)
     => /\ weather # Null
        /\ Len(weather[1].forecast) = 3
        /\ \A k \in 1..3 :
             /\ DayOf(list[Kth(noons, k)]) = DayOf(list[1]) + k - 1
             /\ weather[1].forecast[k] = ExpectedEntry(list[Kth(noons, k)])

ScenarioASettled ==
  /\ SettledWithResult
  /\ MidnightFeed(response.body.list)
  /\ Len(response.body.list) >= 21
  /\ Len(weather[1].forecast) = 3

\* C7: a 200 response whose non-empty list has no sample at local hour 12
\* succeeds with an empty forecast and the current conditions of samples[0];
\* whenever a result is stored its current conditions are those of
\* samples[0].
ScenarioB ==
  [][(lastOp' = "settle" /\ response'.kind = "http" /\ response'.ok /\ response'.json
      /\ response'.body.city # Null /\ Len(response'.body.list) > 0
      /\ response'.body.list[1].weather # <<>>)
     => LET list == response'.body.list
        IN /\ (\A i \in 1..Len(list) : HourOf(list[i]) # 12)
                => /\ weather' = Some([city |-> response'.body.city[1].name,
                                       current |-> ExpectedCurrent(list[1]),
                                       forecast |-> <<>>])
                   /\ error' = error
                   /\ loading' = FALSE
           /\ weather' # Null => weather'[1].current = ExpectedCurrent(list[1])]_vars

ScenarioBSettled ==
  /\ SettledWithResult
  /\ Len(response.body.list) >= 8
  /\ \A i \in 1..Len(response.body.list) : HourOf(response.body.list[i]) # 12
  /\ weather[1].forecast = <<>>
  /\ ~loading

\* C9: scanning in the given order, a sample contributes an entry iff its
\* local hour is 12, no earlier sample of its date was selected and fewer
\* than 3 entries exist; entries are in scan order and nothing after the
\* third selection is examined.
SelectionRule ==
  LET list == response.body.list
      top == TopNoons(list)
  IN (SettledOk /\ response.body.city # Null /\ Len(list) > 0)
     => IF list[1].weather = <<>> \/ \E i \in top : list[i].weather = <<>>
        THEN weather = Null /\ error = ErrorMessage
        ELSE /\ weather # Null
             /\ weather[1].forecast =
                  [k \in 1..Cardinality(top) |-> ExpectedEntry(list[Kth(top, k)])]

FourthNoonUnexamined ==
  /\ SettledWithResult
  /\ Len(weather[1].forecast) = 3
  /\ Cardinality(FirstNoons(response.body.list)) = 4
  /\ \E i \in FirstNoons(response.body.list) : response.body.list[i].weather = <<>>

====
